---- MODULE Spec2Model ----
(***************************************************************************)
(* Model of BalancedSelector (src/src/fetcher/balanced_selector.py): the   *)
(* quota state of one selector object and the two-phase selection loop of  *)
(* select_100_decisions.  The search client, the fetcher and the text      *)
(* classifiers are the environment: what they return is chosen             *)
(* nondeterministically at the step that calls them.                       *)
(*                                                                         *)
(* A search result is a list that the loops consume front to back and      *)
(* never look at otherwise, so the model picks each element of the list    *)
(* when the loop reaches it, and ends the list at any point up to          *)
(* max_results elements.                                                   *)
(*                                                                         *)
(* A fetched text is modelled by what the classifiers read from it: the    *)
(* outcome parse_decision reports and the two feature flags.  A url is     *)
(* named by the text served at it, so equal urls serve equal texts.        *)
(* The variable event names what the last step did, so that properties     *)
(* can speak of the calls a step makes.                                    *)
(* Fields of a decision that no selector code reads (case_number, year,    *)
(* condition, parsed, text, priority) are left out of the records.         *)
(*                                                                         *)
(* The replay specification runs the same selector against collaborators   *)
(* that answer from a script fixed at the start, twice, and keeps the log   *)
(* of the calls made.  Two further functions of the repository have their  *)
(* own specifications: AgentRuntime.execute (api/agent_runtime.py) and     *)
(* select_decisions (src/fetcher/selector.py).                             *)
(***************************************************************************)
EXTENDS Integers, Sequences, FiniteSets, TLC

\* ---- bounds (scaled-down sizes of the run) ----
\* quota of the first outcome (25 in the source, __init__ lines 25-30): 2, so
\* that an outcome takes a second decision before it is full
QuotaFirst == 2
\* quota of each other outcome (25 in the source)
QuotaRest == 1
\* per-feature minimum (10 in the source, __init__ lines 38-41)
SpecialMin == 1
\* number of search conditions (5 in the source, __init__ lines 31-37)
NumConditions == 2
\* number of years in the closed range years[0]..years[1] (3 by default)
NumYears == 2
\* max_results of a Phase 1 search (30 in the source)
MaxResults1 == 2
\* max_results of a Phase 2 search (20 in the source)
MaxResults2 == 2

\* entries kept per audited url in fetch_log
MaxLog == 2

\* ---- program constants ----
FirstYear == 2023
Phase2Year == 2024

None == "<None>"

Outcomes == <<"granted", "denied", "remanded", "mixed">>
Specials == {"private_nexus", "exam_inadequacy"}

\* what parse_decision can put in result["outcome"]
ParsedOutcomes == {"Granted", "Denied", "Remanded", "Mixed", None}

\* a text, as far as the classifiers can tell texts apart
Texts == [outcome : ParsedOutcomes, pn : BOOLEAN, ei : BOOLEAN]

\* a url is named by the text it serves and a copy number: distinct urls
\* may serve equal texts
Copies == 2
UrlOf(text, n) == [serves |-> text, copy |-> n]
Urls == {UrlOf(t, n) : t \in Texts, n \in 1..Copies}

Text(o, pn, ei) == [outcome |-> o, pn |-> pn, ei |-> ei]

\* the corpus the search engine draws from in the main specification: one
\* granted url more than the quota (so that a full quota meets a further
\* candidate), two urls with equal text, texts with both and with none of
\* the two features, and a text with no recognisable outcome
CorpusUrls ==
  { UrlOf(Text("Granted", FALSE, FALSE), 1), UrlOf(Text("Granted", FALSE, FALSE), 2),
    UrlOf(Text("Granted", TRUE, TRUE), 1),
    UrlOf(Text("Denied", FALSE, FALSE), 1),
    UrlOf(Text("Remanded", FALSE, FALSE), 1),
    UrlOf(Text("Mixed", FALSE, FALSE), 1),
    UrlOf(Text(None, TRUE, TRUE), 1) }

Min(a, b) == IF a < b THEN a ELSE b

Range(s) == {s[i] : i \in 1..Len(s)}

\* str.lower() on the strings that occur
Lower(s) ==
  CASE s = "Granted" -> "granted"
    [] s = "Denied" -> "denied"
    [] s = "Remanded" -> "remanded"
    [] s = "Mixed" -> "mixed"
    [] OTHER -> s

\* (parsed.get("outcome") or "").lower()
OutcomeOf(parsed) == Lower(IF parsed.outcome = None THEN "" ELSE parsed.outcome)

\* parse_decision, has_private_nexus, has_exam_inadequacy on a text
parse_decision(text) == [outcome |-> text.outcome]
has_private_nexus(text) == text.pn
has_exam_inadequacy(text) == text.ei

\* self.quotas of __init__, an insertion-ordered dict, scaled
DefaultQuotas ==
  [i \in 1..Len(Outcomes) |->
     [outcome |-> Outcomes[i], quota |-> IF i = 1 THEN QuotaFirst ELSE QuotaRest]]
DefaultSpecialQuotas == [s \in Specials |-> SpecialMin]
\* self.conditions of __init__, scaled: condition i of the list
conditions == [i \in 1..NumConditions |-> i]
\* the years argument (years[0], years[1]) as years[1], years[2]
years == <<FirstYear, FirstYear + NumYears - 1>>
\* the slice bound of the return statement (100 in the source, the sum of
\* the four quotas of __init__)
ResultLimit == QuotaFirst + (Len(Outcomes) - 1) * QuotaRest

VARIABLES
  quotas,          \* self.quotas: sequence of [outcome, quota] in dict order
  special_quotas,  \* self.special_quotas
  selected,        \* self.selected
  seen_urls,       \* self.seen_urls
  counts,          \* self.counts
  special_counts,  \* self.special_counts
  pc,              \* position of select_100_decisions
  ci,              \* index of the current condition in self.conditions
  year,            \* current year of the Phase 1 year loop
  oi,              \* index of the current (outcome, quota) item in Phase 2
  pos,             \* number of elements of the current result list consumed
  result,          \* the returned list (empty until the return)
  delayed,         \* a time.sleep ran since the last network call
  world,           \* the urls the search engine can return
  event,           \* what the last step did
  audit,           \* the urls whose history is recorded
  fetch_log,       \* per audited url: the outcomes of its fetches, in order
  yielded,         \* the audited urls some search result has contained
  script,          \* the replayed behaviour of search_bva and the fetcher, or NoScript
  calls,           \* under a script: the search and fetch calls of this invocation
  first,           \* under a script: what the first invocation did, or NoRun
  agent,           \* the frame of one AgentRuntime.execute call and its runtime
  sd               \* the frame of one select_decisions call (selector.py)

vars == <<quotas, special_quotas, selected, seen_urls, counts, special_counts,
          pc, ci, year, oi, pos, result, delayed, world, event,
          audit, fetch_log, yielded, script, calls, first, agent, sd>>

\* what no step of select_100_decisions changes
config == <<quotas, special_quotas, world, audit, script, first, agent, sd>>
tracking == <<selected, seen_urls, counts, special_counts>>
\* what a step that calls no collaborator leaves alone
history == <<fetch_log, yielded, calls>>

\* ---- the methods of BalancedSelector ----

\* dict.get(key, 0) on self.quotas
QuotaGet(key) ==
  IF \E i \in 1..Len(quotas) : quotas[i].outcome = key
  THEN (CHOOSE q \in Range(quotas) : q.outcome = key).quota
  ELSE 0

RECURSIVE CountIn(_, _)
CountIn(s, outcome) ==
  IF s = <<>> THEN 0
  ELSE (IF Lower(Head(s).outcome) = Lower(outcome) THEN 1 ELSE 0) + CountIn(Tail(s), outcome)

get_outcome_count(outcome) == CountIn(selected, outcome)

\* faulty variant of needs_more: <= for <
needs_moreLeq(outcome) == get_outcome_count(outcome) <= QuotaGet(Lower(outcome))
\* needs_more
needs_more(outcome) == get_outcome_count(outcome) < QuotaGet(Lower(outcome))

needs_special(special_type) == special_counts[special_type] < special_quotas[special_type]

\* faulty variant of is_complete: the special requirements are not checked
is_completeOutcomesOnly ==
  \A i \in 1..Len(quotas) : ~(get_outcome_count(quotas[i].outcome) < quotas[i].quota)
\* is_complete
is_complete ==
  /\ \A i \in 1..Len(quotas) : ~(get_outcome_count(quotas[i].outcome) < quotas[i].quota)
  /\ \A s \in DOMAIN special_quotas : ~(special_counts[s] < special_quotas[s])

\* the decision dict built at lines 173-184 and 244-254
Decision(url, outcome, text) ==
  [url |-> url, outcome |-> outcome,
   has_private_nexus |-> has_private_nexus(text),
   has_exam_inadequacy |-> has_exam_inadequacy(text)]

\* faulty variant of AppendDecision: insert at the front
AppendFront(s, decision) == <<decision>> \o s
\* self.selected.append(decision)
AppendDecision(s, decision) == Append(s, decision)

\* faulty variant of add_decision: the features of the decision are not counted
add_decisionNoSpecial(decision) ==
  /\ selected' = AppendDecision(selected, decision)
  /\ counts' = [counts EXCEPT ![Lower(decision.outcome)] = @ + 1]
  /\ special_counts' = special_counts
\* add_decision
add_decision(decision) ==
  /\ selected' = AppendDecision(selected, decision)
  /\ counts' = [counts EXCEPT ![Lower(decision.outcome)] = @ + 1]
  /\ special_counts' =
       [s \in DOMAIN special_counts |->
          special_counts[s]
          + (IF s = "private_nexus" /\ decision.has_private_nexus THEN 1 ELSE 0)
          + (IF s = "exam_inadequacy" /\ decision.has_exam_inadequacy THEN 1 ELSE 0)]

\* faulty variant of SeenAdd: the url is not recorded
SeenAddNothing(url) == seen_urls
\* self.seen_urls.add(r["url"])
SeenAdd(url) == seen_urls \cup {url}

\* r["url"] in self.seen_urls
InSeen(url) == url \in seen_urls

\* fetch_decision_text on a url that answers
fetch_decision_text(url) == url.serves

\* the except clauses around search_bva (lines 199-201, 264-266) and around
\* the fetch (lines 195-197, 260-262): the error is logged and the loop goes
\* on; the faulty variants let the error leave select_100_decisions
OnSearchErrorRaise == "raise"
OnSearchError == "continue"
OnFetchErrorRaise == "raise"
OnFetchError == "continue"

\* faulty variant of ResultsBreak: the loop over results never breaks
ResultsBreakNever == FALSE
\* if self.is_complete(): break, at the head of for r in results (line 143)
ResultsBreak == is_complete

\* faulty variant of NextYear: the loop stays on the year it is on
NextYearSame(y) == y
\* for year in range(years[1], years[0] - 1, -1): the year after y
NextYear(y) == y - 1

\* faulty variant of Verified: any outcome still wanted passes
VerifiedIfNeeded(actual_outcome, outcome) == needs_more(actual_outcome)
\* the test of if actual_outcome != outcome: continue (line 240)
Verified(actual_outcome, outcome) == actual_outcome = outcome

\* faulty variant of P2Full: the breaks on a full outcome never fire
P2FullNever == FALSE

\* ---- history ----

\* a search result contained u
Yield(u) == yielded' = IF u \in audit THEN yielded \cup {u} ELSE yielded

\* fetch_decision_text(u) was called and ended as r
Logged(u, r) ==
  fetch_log' = IF u \in audit /\ Len(fetch_log[u]) < MaxLog
               THEN [fetch_log EXCEPT ![u] = Append(@, r)]
               ELSE fetch_log

\* ---- the collaborators under a script ----

\* In the replay specifications search_bva and fetch_decision_text answer
\* from a script fixed at the start: the search engine serves a cyclic stream
\* of urls in pages of page_size hits, the k-th search of an invocation
\* starting max_results further into the stream than the one before; the
\* searches numbered in bad_search raise, and so does every fetch of a url in
\* bad_fetch.  With script.on false the collaborators answer as they like.
NoScript ==
  [on |-> FALSE, stream |-> <<>>, page_size |-> 0, bad_fetch |-> {}, bad_search |-> {}]

\* the result pages the engine links together for one search
EnginePages == 2

\* max_pages: int = 1 of search_bva, which no caller in the selector overrides
DefaultMaxPages == 1

\* the inner loop of search_bva over the hits of one page: results.append
\* until len(results) >= max_results
TakePage(results, page, max_results) ==
  results \o SubSeq(page, 1, Min(Len(page), max_results - Len(results)))

\* the loop for page in range(max_pages) of search_bva from page p on, over
\* the pages the engine serves: a page has a Next link iff a page follows it
RECURSIVE SearchPages(_, _, _, _, _)
SearchPages(pages, p, results, max_results, max_pages) ==
  IF p >= max_pages \/ Len(results) >= max_results
  THEN results
  ELSE LET got == TakePage(results, pages[p + 1], max_results)
       IN IF p + 1 < Len(pages)
          THEN SearchPages(pages, p + 1, got, max_results, max_pages)
          ELSE got

\* search_bva(query, year, max_results, max_pages) on the pages of its query
search_bva(pages, max_results, max_pages) ==
  SearchPages(pages, 0, <<>>, max_results, max_pages)

\* the number of search_bva calls this invocation has made
Searches == Cardinality({i \in 1..Len(calls) : calls[i].op = "search"})

\* the pages the engine holds for the k-th search, asked for at most M results
EngineAnswer(k, M) ==
  LET L == Len(script.stream)
  IN IF L = 0 THEN << <<>> >>
     ELSE [p \in 1..EnginePages |->
             [j \in 1..script.page_size |->
                script.stream[(((k - 1) * M + (p - 1) * script.page_size + j - 1) % L) + 1]]]

\* the hits on all pages of the k-th search
Hits(k, M) == IF Len(script.stream) = 0 THEN 0 ELSE EnginePages * script.page_size

\* the list the k-th search returns when asked for at most M results:
\* search_bva(query, year=..., max_results=M)
ScriptList(k, M) == search_bva(EngineAnswer(k, M), M, DefaultMaxPages)

\* the search about to be made may return, may raise
MaySearchOk == IF script.on THEN (Searches + 1) \notin script.bad_search ELSE TRUE
MaySearchFail == IF script.on THEN (Searches + 1) \in script.bad_search ELSE TRUE
\* u may be the next element of the current result list
MayYield(u, M) ==
  IF script.on
  THEN /\ pos < Len(ScriptList(Searches, M))
       /\ u = ScriptList(Searches, M)[pos + 1]
  ELSE TRUE
\* the current result list may have no further element
ListEnded(M) == IF script.on THEN pos >= Len(ScriptList(Searches, M)) ELSE TRUE
\* the fetch of u may return, may raise
MayFetchOk(u) == IF script.on THEN u \notin script.bad_fetch ELSE TRUE
MayFetchFail(u) == IF script.on THEN u \in script.bad_fetch ELSE TRUE

\* search_bva(query, year=y, ...) and fetch_decision_text(url) as calls
SearchCall(query, y) == [op |-> "search", query |-> query, year |-> y]
FetchCall(u) == [op |-> "fetch", url |-> u]

\* the call c is made
Call(c) == calls' = IF script.on THEN Append(calls, c) ELSE calls

\* ---- Phase 1 ----

\* for condition in self.conditions: if self.is_complete(): break
P1Condition ==
  /\ pc = "p1_condition"
  /\ event' = "p1_condition"
  /\ IF ci > Len(conditions) \/ is_complete
     THEN pc' = "p2_check" /\ UNCHANGED year
     ELSE pc' = "p1_year" /\ year' = years[2]
  /\ UNCHANGED <<config, tracking, history, ci, oi, pos, result, delayed>>

\* for year in range(...): exhausted, or if self.is_complete(): break
P1YearDone ==
  /\ pc = "p1_year"
  /\ event' = "p1_year_done"
  /\ year < years[1] \/ is_complete
  /\ ci' = ci + 1
  /\ pc' = "p1_condition"
  /\ UNCHANGED <<config, tracking, history, year, oi, pos, result, delayed>>

\* results = search_bva(query, year=year, max_results=30) returns
P1SearchOk ==
  /\ pc = "p1_year"
  /\ event' = "search_ok"
  /\ ~(year < years[1] \/ is_complete)
  /\ MaySearchOk
  /\ Call(SearchCall(<<conditions[ci]>>, year))
  /\ pc' = "p1_results"
  /\ pos' = 0
  /\ delayed' = FALSE
  /\ UNCHANGED <<config, tracking, fetch_log, yielded, ci, year, oi, result>>

\* search_bva raises: except Exception ... continue (skips the sleep(2))
P1SearchFail ==
  /\ pc = "p1_year"
  /\ event' = "search_fail"
  /\ ~(year < years[1] \/ is_complete)
  /\ MaySearchFail
  /\ Call(SearchCall(<<conditions[ci]>>, year))
  /\ IF OnSearchError = "continue"
     THEN year' = NextYear(year) /\ UNCHANGED pc
     ELSE pc' = "raised" /\ UNCHANGED year
  /\ delayed' = FALSE
  /\ UNCHANGED <<config, tracking, fetch_log, yielded, ci, oi, pos, result>>

\* for r in results: list exhausted, or if self.is_complete(): break;
\* then time.sleep(2) and the next year
P1ResultsDone ==
  /\ pc = "p1_results"
  /\ IF ListEnded(MaxResults1) THEN TRUE ELSE ResultsBreak
  /\ event' = "results_done"
  /\ pc' = "p1_year"
  /\ year' = NextYear(year)
  /\ delayed' = TRUE
  /\ pos' = 0
  /\ UNCHANGED <<config, tracking, history, ci, oi, result>>

\* the loop takes the next element r of results
P1Next(u) ==
  /\ pc = "p1_results"
  /\ pos < MaxResults1
  /\ u \in world
  /\ MayYield(u, MaxResults1)
  /\ ~ResultsBreak
  /\ pos' = pos + 1
  /\ Yield(u)

\* if r["url"] in self.seen_urls: continue
P1Seen(u) ==
  /\ P1Next(u)
  /\ event' = "seen"
  /\ InSeen(u)
  /\ UNCHANGED <<config, tracking, fetch_log, calls, pc, ci, year, oi, result, delayed>>

\* fetch_decision_text (or parse_decision) raises: except ... continue
P1FetchFail(u) ==
  /\ P1Next(u)
  /\ event' = "fetch_fail"
  /\ ~InSeen(u)
  /\ MayFetchFail(u)
  /\ Call(FetchCall(u))
  /\ Logged(u, "fail")
  /\ delayed' = FALSE
  /\ pc' = IF OnFetchError = "continue" THEN pc ELSE "raised"
  /\ UNCHANGED <<config, tracking, ci, year, oi, result>>

\* if not self.needs_more(outcome): continue
P1Skip(u) ==
  /\ P1Next(u)
  /\ ~InSeen(u)
  /\ LET text == fetch_decision_text(u)
         outcome == OutcomeOf(parse_decision(text))
     IN /\ ~needs_more(outcome)
        /\ event' = IF QuotaGet(outcome) = 0 THEN "skip_unmatched" ELSE "skip_full"
  /\ MayFetchOk(u)
  /\ Call(FetchCall(u))
  /\ Logged(u, "ok")
  /\ delayed' = FALSE
  /\ UNCHANGED <<config, tracking, pc, ci, year, oi, result>>

\* lines 160-193: the decision is added, then time.sleep(1.5)
P1Accept(u) ==
  /\ P1Next(u)
  /\ event' = "accept"
  /\ ~InSeen(u)
  /\ LET text == fetch_decision_text(u)
         outcome == OutcomeOf(parse_decision(text))
     IN /\ needs_more(outcome)
        /\ seen_urls' = SeenAdd(u)
        /\ add_decision(Decision(u, outcome, text))
  /\ MayFetchOk(u)
  /\ Call(FetchCall(u))
  /\ Logged(u, "ok")
  /\ delayed' = TRUE
  /\ UNCHANGED <<config, pc, ci, year, oi, result>>

\* ---- Phase 2 ----

\* faulty variant of P2Check: Phase 2 is entered whatever is_complete() says
P2CheckAlways ==
  /\ pc = "p2_check"
  /\ event' = "p2_check"
  /\ pc' = "p2_outcome"
  /\ oi' = 1
  /\ UNCHANGED <<config, tracking, history, ci, year, pos, result, delayed>>

\* if not self.is_complete():
P2Check ==
  /\ pc = "p2_check"
  /\ event' = "p2_check"
  /\ IF ~is_complete
     THEN pc' = "p2_outcome" /\ oi' = 1
     ELSE pc' = "return" /\ UNCHANGED oi
  /\ UNCHANGED <<config, tracking, history, ci, year, pos, result, delayed>>

\* for outcome, quota in self.quotas.items(): if count < quota:
P2Outcome ==
  /\ pc = "p2_outcome"
  /\ event' = "p2_outcome"
  /\ IF oi > Len(quotas)
     THEN pc' = "return" /\ UNCHANGED <<oi, ci>>
     ELSE IF get_outcome_count(quotas[oi].outcome) < quotas[oi].quota
          THEN pc' = "p2_condition" /\ ci' = 1 /\ UNCHANGED oi
          ELSE oi' = oi + 1 /\ UNCHANGED <<pc, ci>>
  /\ UNCHANGED <<config, tracking, history, year, pos, result, delayed>>

\* if self.get_outcome_count(outcome) >= quota: break (lines 219, 229)
P2Full == get_outcome_count(quotas[oi].outcome) >= quotas[oi].quota

\* for condition in self.conditions: exhausted, or count >= quota: break
P2ConditionDone ==
  /\ pc = "p2_condition"
  /\ event' = "p2_condition_done"
  /\ ci > Len(conditions) \/ P2Full
  /\ oi' = oi + 1
  /\ pc' = "p2_outcome"
  /\ UNCHANGED <<config, tracking, history, ci, year, pos, result, delayed>>

\* results = search_bva(query, year=2024, max_results=20) returns
P2SearchOk ==
  /\ pc = "p2_condition"
  /\ event' = "search_ok"
  /\ ~(ci > Len(conditions) \/ P2Full)
  /\ MaySearchOk
  /\ Call(SearchCall(<<conditions[ci], quotas[oi].outcome>>, Phase2Year))
  /\ pc' = "p2_results"
  /\ pos' = 0
  /\ delayed' = FALSE
  /\ UNCHANGED <<config, tracking, fetch_log, yielded, ci, year, oi, result>>

\* search_bva raises: except Exception ... continue
P2SearchFail ==
  /\ pc = "p2_condition"
  /\ event' = "search_fail"
  /\ ~(ci > Len(conditions) \/ P2Full)
  /\ MaySearchFail
  /\ Call(SearchCall(<<conditions[ci], quotas[oi].outcome>>, Phase2Year))
  /\ IF OnSearchError = "continue"
     THEN ci' = ci + 1 /\ UNCHANGED pc
     ELSE pc' = "raised" /\ UNCHANGED ci
  /\ delayed' = FALSE
  /\ UNCHANGED <<config, tracking, fetch_log, yielded, year, oi, pos, result>>

\* for r in results: list exhausted, or count >= quota: break
P2ResultsDone ==
  /\ pc = "p2_results"
  /\ IF ListEnded(MaxResults2) THEN TRUE ELSE P2Full
  /\ event' = "results_done"
  /\ ci' = ci + 1
  /\ pc' = "p2_condition"
  /\ pos' = 0
  /\ UNCHANGED <<config, tracking, history, year, oi, result, delayed>>

\* the loop takes the next element r of results
P2Next(u) ==
  /\ pc = "p2_results"
  /\ pos < MaxResults2
  /\ u \in world
  /\ MayYield(u, MaxResults2)
  /\ ~P2Full
  /\ pos' = pos + 1
  /\ Yield(u)

\* if r["url"] in self.seen_urls: continue
P2Seen(u) ==
  /\ P2Next(u)
  /\ event' = "seen"
  /\ InSeen(u)
  /\ UNCHANGED <<config, tracking, fetch_log, calls, pc, ci, year, oi, result, delayed>>

\* fetch_decision_text (or parse_decision) raises: except ... continue
P2FetchFail(u) ==
  /\ P2Next(u)
  /\ event' = "fetch_fail"
  /\ ~InSeen(u)
  /\ MayFetchFail(u)
  /\ Call(FetchCall(u))
  /\ Logged(u, "fail")
  /\ delayed' = FALSE
  /\ pc' = IF OnFetchError = "continue" THEN pc ELSE "raised"
  /\ UNCHANGED <<config, tracking, ci, year, oi, result>>

\* if actual_outcome != outcome: continue
P2Mismatch(u) ==
  /\ P2Next(u)
  /\ event' = "mismatch"
  /\ ~InSeen(u)
  /\ LET text == fetch_decision_text(u)
         actual_outcome == OutcomeOf(parse_decision(text))
     IN ~Verified(actual_outcome, quotas[oi].outcome)
  /\ MayFetchOk(u)
  /\ Call(FetchCall(u))
  /\ Logged(u, "ok")
  /\ delayed' = FALSE
  /\ UNCHANGED <<config, tracking, pc, ci, year, oi, result>>

\* lines 243-258: the decision is added, then time.sleep(1.5)
P2Accept(u) ==
  /\ P2Next(u)
  /\ event' = "accept"
  /\ ~InSeen(u)
  /\ LET text == fetch_decision_text(u)
         actual_outcome == OutcomeOf(parse_decision(text))
     IN /\ Verified(actual_outcome, quotas[oi].outcome)
        /\ seen_urls' = SeenAdd(u)
        /\ add_decision(Decision(u, actual_outcome, text))
  /\ MayFetchOk(u)
  /\ Call(FetchCall(u))
  /\ Logged(u, "ok")
  /\ delayed' = TRUE
  /\ UNCHANGED <<config, pc, ci, year, oi, result>>

\* ---- return ----

\* faulty variant of Slice: one element short
SliceShort(s) == SubSeq(s, 1, Min(Len(s), ResultLimit - 1))
\* self.selected[:100]
Slice(s) == SubSeq(s, 1, Min(Len(s), ResultLimit))

\* return self.selected[:100]
Return ==
  /\ pc = "return"
  /\ event' = "return"
  /\ result' = Slice(selected)
  /\ pc' = "done"
  /\ UNCHANGED <<config, tracking, history, ci, year, oi, pos, delayed>>

\* ---- a second invocation ----

\* what an invocation did, kept for comparison with the next one
NoRun == [mode |-> "none", selected |-> <<>>, calls |-> <<>>, result |-> <<>>]
Snapshot(mode) ==
  [mode |-> mode, selected |-> selected, calls |-> calls, result |-> result]

\* faulty variant of NewSeenUrls: one set shared by all selector objects
NewSeenUrlsShared == seen_urls
\* self.seen_urls = set() of __init__
NewSeenUrls == {}

\* select_100_decisions is entered: its loops start over, nothing is returned yet
Enter ==
  /\ pc' = "p1_condition"
  /\ ci' = 1
  /\ year' = years[2]
  /\ oi' = 1
  /\ pos' = 0
  /\ result' = <<>>
  /\ delayed' = TRUE
  /\ calls' = <<>>
  /\ UNCHANGED <<quotas, special_quotas, world, audit, script, agent, sd,
                 fetch_log, yielded>>

\* BalancedSelector() builds a second selector, whose select_100_decisions
\* runs against the same script
Rerun ==
  /\ pc = "done"
  /\ script.on
  /\ first.mode = "none"
  /\ first' = Snapshot("fresh")
  /\ selected' = <<>>
  /\ seen_urls' = NewSeenUrls
  /\ counts' = [o \in DOMAIN counts |-> 0]
  /\ special_counts' = [sp \in DOMAIN special_counts |-> 0]
  /\ event' = "start"
  /\ Enter

\* select_100_decisions is called again on the same selector: the tracking
\* fields are set in __init__ only, so the call finds them as the first left them
Reinvoke ==
  /\ pc = "done"
  /\ script.on
  /\ first.mode = "none"
  /\ first' = Snapshot("same")
  /\ event' = "invoke"
  /\ UNCHANGED tracking
  /\ Enter

\* ---- AgentRuntime.execute (api/agent_runtime.py) ----

\* largest max_retries tried
MaxRetries == 2

\* AgentResult.confidence in tenths: 1.0, 0.5 and 0.0 of the source
FullConfidence == 10
FallbackConfidence == 5
NoConfidence == 0
\* the values calculate_confidence may return, in tenths
Calculated == {NoConfidence, FallbackConfidence, FullConfidence}

\* the selector's variables, which no other function touches
selector == <<quotas, special_quotas, selected, seen_urls, counts, special_counts,
              pc, ci, year, oi, pos, result, delayed, world, event,
              audit, fetch_log, yielded, script, calls, first>>

\* agent holds the AgentRuntime object (max_retries, fallback_fn), the
\* arguments of execute (validate_input, calculate_confidence), the locals of
\* the call (attempt, trace.retries, trace.status), the AgentResult returned
\* (data, confidence) and the calls made so far (invocations, fallbacks, and
\* whether an invocation of fn has returned).  A callable is modelled by how
\* it behaves when called; fn returns or raises anew at each invocation.
NoExecute ==
  [apc |-> "idle", max_retries |-> 0, fallback_fn |-> "absent",
   validate_input |-> "absent", calculate_confidence |-> "absent",
   attempt |-> 0, retries |-> 0, status |-> "success",
   data |-> "none", confidence |-> FullConfidence,
   invocations |-> 0, fallbacks |-> 0, fn_returned |-> FALSE]

\* AgentRuntime(...) and the entry of execute: trace = AgentTrace(...)
Execute(m, fb, v, cc) ==
  [NoExecute EXCEPT !.apc = "validate", !.max_retries = m, !.fallback_fn = fb,
                    !.validate_input = v, !.calculate_confidence = cc]

\* trace.complete(status, ...) followed by return AgentResult(data, trace, confidence)
AgentReturn(a, status, data, confidence) ==
  [a EXCEPT !.apc = "returned", !.status = status, !.data = data,
            !.confidence = confidence]

\* the except clauses around validate_input (line 163) and around
\* fallback_fn (line 250): the error is logged and execute returns FAILED;
\* the faulty variants let the error leave execute
OnValidatorErrorRaise == "raise"
OnValidatorError == "return_failed"
OnFallbackErrorRaise == "raise"
OnFallbackError == "return_failed"

\* lines 153-170: no validator, or the validator accepts, rejects or raises
AgentValidate ==
  /\ agent.apc = "validate"
  /\ agent' =
       CASE agent.validate_input \in {"absent", "accepts"} ->
              [agent EXCEPT !.apc = "loop", !.attempt = 0]
         [] agent.validate_input = "rejects" ->
              AgentReturn(agent, "failed", "none", NoConfidence)
         [] OTHER ->
              IF OnValidatorError = "return_failed"
              THEN AgentReturn(agent, "failed", "none", NoConfidence)
              ELSE [agent EXCEPT !.apc = "escaped"]
  /\ UNCHANGED <<selector, sd>>

\* faulty variant of Attempts: one attempt too many
AttemptsOneMore == agent.max_retries + 2
\* range(self.max_retries + 1)
Attempts == agent.max_retries + 1

\* lines 176-183: a retry is counted before fn is invoked again
Retrying(a) ==
  IF a.attempt > 0
  THEN [a EXCEPT !.retries = @ + 1, !.status = "retrying"]
  ELSE a

\* lines 188-197: 1.0, or what calculate_confidence returns; 1.0 if it raises
ConfidenceOf(c) ==
  IF agent.calculate_confidence = "returns" THEN c ELSE FullConfidence

\* lines 174-218: fn returns; execute returns SUCCESS with its value
AgentAttemptReturns(c) ==
  /\ agent.apc = "loop"
  /\ agent.attempt < Attempts
  /\ agent' =
       AgentReturn([Retrying(agent) EXCEPT !.invocations = @ + 1, !.fn_returned = TRUE],
                   "success", "fn", ConfidenceOf(c))
  /\ UNCHANGED <<selector, sd>>

\* lines 174-236: fn raises; the error is recorded and the loop goes on
AgentAttemptRaises ==
  /\ agent.apc = "loop"
  /\ agent.attempt < Attempts
  /\ agent' = [Retrying(agent) EXCEPT !.invocations = @ + 1, !.attempt = @ + 1]
  /\ UNCHANGED <<selector, sd>>

\* faulty variant of FallbackStatus
FallbackStatusSuccess == "success"
\* AgentStatus.FALLBACK of line 247
FallbackStatus == "fallback"

\* lines 239-249: every attempt raised and the fallback returns
AgentFallbackReturns ==
  /\ agent.apc = "loop"
  /\ ~(agent.attempt < Attempts)
  /\ agent.fallback_fn = "returns"
  /\ agent' = AgentReturn([agent EXCEPT !.fallbacks = @ + 1],
                          FallbackStatus, "fallback", FallbackConfidence)
  /\ UNCHANGED <<selector, sd>>

\* lines 239-269: every attempt raised and the fallback raises
AgentFallbackRaises ==
  /\ agent.apc = "loop"
  /\ ~(agent.attempt < Attempts)
  /\ agent.fallback_fn = "raises"
  /\ agent' =
       IF OnFallbackError = "return_failed"
       THEN AgentReturn([agent EXCEPT !.fallbacks = @ + 1], "failed", "none", NoConfidence)
       ELSE [agent EXCEPT !.fallbacks = @ + 1, !.apc = "escaped"]
  /\ UNCHANGED <<selector, sd>>

\* lines 239, 257-269: every attempt raised and there is no fallback
AgentFails ==
  /\ agent.apc = "loop"
  /\ ~(agent.attempt < Attempts)
  /\ agent.fallback_fn = "absent"
  /\ agent' = AgentReturn(agent, "failed", "none", NoConfidence)
  /\ UNCHANGED <<selector, sd>>

\* ---- select_decisions (src/fetcher/selector.py) ----

\* largest max_per_bucket tried
MaxPerBucket == 2

\* the outcomes select_decisions queries for (line 78)
QueryOutcomes == <<"granted", "denied", "remanded">>

\* sd holds the argument max_per_bucket, the locals selected and seen_urls,
\* and the position of the three nested loops and of the loop over results.
\* The conditions and years arguments are conditions and years above.  Each
\* selected item also records the outcome of the query that found it.
NoSelect ==
  [spc |-> "idle", max_per_bucket |-> 0, selected |-> <<>>, seen_urls |-> {},
   ci |-> 1, oj |-> 1, year |-> years[2], pos |-> 0]

\* the entry of select_decisions(max_per_bucket=m): selected = [], seen_urls = set()
Select(m) == [NoSelect EXCEPT !.spc = "year", !.max_per_bucket = m]

\* len([s for s in selected if s["condition"] == condition and s["outcome"] == outcome])
BucketCount(items, condition, outcome) ==
  Cardinality({i \in 1..Len(items) :
                 items[i].condition = condition /\ items[i].outcome = outcome})

\* faulty variant of BucketFull: > for >=
BucketFullGt ==
  BucketCount(sd.selected, conditions[sd.ci], QueryOutcomes[sd.oj]) > sd.max_per_bucket
\* the test of lines 83 and 93 for the current condition and outcome
BucketFull ==
  BucketCount(sd.selected, conditions[sd.ci], QueryOutcomes[sd.oj]) >= sd.max_per_bucket

\* a or b on strings
OrElse(a, b) == IF a = "" THEN b ELSE a

\* the year loop of the current query is left: the next outcome, or the next
\* condition with the first outcome, or the return
SdNextQuery(f) ==
  IF f.oj < Len(QueryOutcomes)
  THEN [f EXCEPT !.oj = @ + 1, !.year = years[2]]
  ELSE IF f.ci < Len(conditions)
       THEN [f EXCEPT !.ci = @ + 1, !.oj = 1, !.year = years[2]]
       ELSE [f EXCEPT !.spc = "done"]

\* for year in range(...): exhausted, or the bucket is full: break (line 83)
SdYearDone ==
  /\ sd.spc = "year"
  /\ sd.year < years[1] \/ BucketFull
  /\ sd' = SdNextQuery(sd)
  /\ UNCHANGED <<selector, agent>>

\* results = search_bva(query, year=year, max_results=max_per_bucket * 2) returns
SdSearchOk ==
  /\ sd.spc = "year"
  /\ ~(sd.year < years[1] \/ BucketFull)
  /\ sd' = [sd EXCEPT !.spc = "results", !.pos = 0]
  /\ UNCHANGED <<selector, agent>>

\* search_bva raises: except Exception ... continue (lines 125-127)
SdSearchFail ==
  /\ sd.spc = "year"
  /\ ~(sd.year < years[1] \/ BucketFull)
  /\ sd' = [sd EXCEPT !.year = @ - 1]
  /\ UNCHANGED <<selector, agent>>

\* for r in results: list exhausted, or the break of line 94; the next year
SdResultsDone ==
  /\ sd.spc = "results"
  /\ sd' = [sd EXCEPT !.spc = "year", !.year = @ - 1, !.pos = 0]
  /\ UNCHANGED <<selector, agent>>

\* the loop takes the next element r of results
SdNext(u) ==
  /\ sd.spc = "results"
  /\ sd.pos < sd.max_per_bucket * 2
  /\ u \in world

\* if r["url"] in seen_urls: continue
SdSeen(u) ==
  /\ SdNext(u)
  /\ u \in sd.seen_urls
  /\ sd' = [sd EXCEPT !.pos = @ + 1]
  /\ UNCHANGED <<selector, agent>>

\* fetch_decision_text (or parse_decision) raises: except ... continue
SdFetchFail(u) ==
  /\ SdNext(u)
  /\ u \notin sd.seen_urls
  /\ ~BucketFull
  /\ sd' = [sd EXCEPT !.pos = @ + 1]
  /\ UNCHANGED <<selector, agent>>

\* if actual_outcome != outcome and outcome != "mixed": continue
SdMismatch(u) ==
  /\ SdNext(u)
  /\ u \notin sd.seen_urls
  /\ ~BucketFull
  /\ LET outcome == QueryOutcomes[sd.oj]
         actual_outcome == OutcomeOf(parse_decision(fetch_decision_text(u)))
     IN actual_outcome # outcome /\ outcome # "mixed"
  /\ sd' = [sd EXCEPT !.pos = @ + 1]
  /\ UNCHANGED <<selector, agent>>

\* lines 105-119: the url is recorded as seen and the item is appended
SdAccept(u) ==
  /\ SdNext(u)
  /\ u \notin sd.seen_urls
  /\ ~BucketFull
  /\ LET outcome == QueryOutcomes[sd.oj]
         actual_outcome == OutcomeOf(parse_decision(fetch_decision_text(u)))
     IN /\ ~(actual_outcome # outcome /\ outcome # "mixed")
        /\ sd' = [sd EXCEPT !.pos = @ + 1,
                            !.seen_urls = @ \cup {u},
                            !.selected =
                              Append(@, [url |-> u, condition |-> conditions[sd.ci],
                                         outcome |-> OrElse(actual_outcome, outcome),
                                         query |-> outcome])]
  /\ UNCHANGED <<selector, agent>>

\* ---- specifications ----

\* the state after BalancedSelector() and the start of select_100_decisions
Fresh ==
  /\ selected = <<>>
  /\ seen_urls = {}
  /\ counts = [o \in Range(Outcomes) \cup {""} |-> 0]
  /\ special_counts = [s \in Specials |-> 0]
  /\ pc = "p1_condition"
  /\ ci = 1
  /\ year = years[2]
  /\ oi = 1
  /\ pos = 0
  /\ result = <<>>
  /\ delayed = TRUE
  /\ event = "start"
  /\ fetch_log = [u \in audit |-> <<>>]
  /\ yielded = {}
  /\ calls = <<>>

\* no script is replayed, and no other function of the repository runs
Elsewhere ==
  /\ script = NoScript
  /\ first = NoRun
  /\ agent = NoExecute
  /\ sd = NoSelect

\* the selector of __init__ over the corpus, no url audited
Init ==
  /\ quotas = DefaultQuotas
  /\ special_quotas = DefaultSpecialQuotas
  /\ world = CorpusUrls
  /\ audit = {}
  /\ Elsewhere
  /\ Fresh

Steps ==
  \/ P1Condition
  \/ P1YearDone
  \/ P1SearchOk
  \/ P1ResultsDone
  \/ \E u \in world : P1Seen(u)
  \/ \E u \in world : P1Skip(u)
  \/ \E u \in world : P1Accept(u)
  \/ P2Check
  \/ P2Outcome
  \/ P2ConditionDone
  \/ P2SearchOk
  \/ P2ResultsDone
  \/ \E u \in world : P2Seen(u)
  \/ \E u \in world : P2Mismatch(u)
  \/ \E u \in world : P2Accept(u)
  \/ Return

SearchFailures ==
  \/ P1SearchFail
  \/ P2SearchFail

FetchFailures ==
  \/ \E u \in world : P1FetchFail(u)
  \/ \E u \in world : P2FetchFail(u)

Next == Steps \/ SearchFailures \/ FetchFailures

Spec == Init /\ [][Next]_vars

\* the same selector and corpus, with the history of one url recorded: the
\* granted text that carries both features
AuditedUrl == UrlOf(Text("Granted", TRUE, TRUE), 1)

InitAudit ==
  /\ quotas = DefaultQuotas
  /\ special_quotas = DefaultSpecialQuotas
  /\ world = CorpusUrls
  /\ audit = {AuditedUrl}
  /\ Elsewhere
  /\ Fresh

\* runs in which every fetch succeeds (searches may still fail)
NextReliable == Steps \/ SearchFailures

SpecReliable == InitAudit /\ [][NextReliable]_vars

\* ---- the replay specification ----

\* the stream of the worked scenario: two granted texts, a denied text with
\* a private nexus opinion, a third granted text, a second denied text
ScenarioStream ==
  << UrlOf(Text("Granted", FALSE, FALSE), 1),
     UrlOf(Text("Granted", FALSE, FALSE), 2),
     UrlOf(Text("Denied", TRUE, FALSE), 1),
     UrlOf(Text("Granted", FALSE, TRUE), 1),
     UrlOf(Text("Denied", FALSE, FALSE), 1) >>

\* s with its first n elements moved to the end
Rotate(s, n) == [i \in 1..Len(s) |-> s[((i + n - 1) % Len(s)) + 1]]

\* the streams replayed: the scenario's and its rotations, the scenario's
\* followed by a text of an outcome outside the scenario's quotas, the
\* scenario's led by a text with both features and no recognisable outcome,
\* and the empty stream
ReplayStreams ==
  {Rotate(ScenarioStream, n) : n \in 0..(Len(ScenarioStream) - 1)}
    \cup {ScenarioStream \o <<UrlOf(Text("Remanded", FALSE, FALSE), 1)>>,
          <<UrlOf(Text(None, TRUE, TRUE), 1)>> \o ScenarioStream,
          <<>>}

ReplayUrls ==
  Range(ScenarioStream)
    \cup {UrlOf(Text("Remanded", FALSE, FALSE), 1), UrlOf(Text(None, TRUE, TRUE), 1)}

\* a page that holds as many hits as any search asks for
FullPage == IF MaxResults1 > MaxResults2 THEN MaxResults1 ELSE MaxResults2

\* the scripts replayed: every stream in full pages with at most one failing
\* url and at most one failing search, and every stream in pages of one hit
\* with no failure
Scripts ==
  [on : {TRUE},
   stream : ReplayStreams,
   page_size : {FullPage},
   bad_fetch : {{}, {ScenarioStream[1]}, {ScenarioStream[3]}},
   bad_search : {{}} \cup {{k} : k \in 1..(NumConditions * NumYears + 1)}]
    \cup [on : {TRUE}, stream : ReplayStreams, page_size : {1},
          bad_fetch : {{}}, bad_search : {{}}]

\* the scenario: two outcomes with quota 2 each, one private nexus opinion
\* wanted, no minimum for the other feature
ScenarioQuotas ==
  <<[outcome |-> "granted", quota |-> 2], [outcome |-> "denied", quota |-> 2]>>
ScenarioSpecialQuotas == [s \in Specials |-> IF s = "private_nexus" THEN 1 ELSE 0]
ScenarioScript ==
  [on |-> TRUE, stream |-> ScenarioStream, page_size |-> FullPage,
   bad_fetch |-> {}, bad_search |-> {}]

\* quotas that sum to more than the ResultLimit decisions a run returns
OverQuotas ==
  <<[outcome |-> "granted", quota |-> ResultLimit], [outcome |-> "denied", quota |-> 1]>>

RECURSIVE SumQuotas(_)
SumQuotas(qs) == IF qs = <<>> THEN 0 ELSE Head(qs).quota + SumQuotas(Tail(qs))

ReplayConfigs ==
  { [quotas |-> ScenarioQuotas, special_quotas |-> ScenarioSpecialQuotas],
    [quotas |-> DefaultQuotas, special_quotas |-> DefaultSpecialQuotas],
    [quotas |-> OverQuotas, special_quotas |-> ScenarioSpecialQuotas] }

\* a selector whose quota fields hold one of the configurations, run against
\* one of the scripts
InitReplay ==
  /\ \E c \in ReplayConfigs :
       quotas = c.quotas /\ special_quotas = c.special_quotas
  /\ world = ReplayUrls
  /\ audit = {}
  /\ script \in Scripts
  /\ first = NoRun
  /\ agent = NoExecute
  /\ sd = NoSelect
  /\ Fresh

NextReplay == Next \/ Rerun \/ Reinvoke

SpecReplay == InitReplay /\ [][NextReplay]_vars

\* one invocation that is never abandoned: select_100_decisions is sequential
\* code, each of its steps follows the one before, and every collaborator
\* call returns or raises (the http clients have a timeout)
SpecReplayLive == InitReplay /\ [][Next]_vars /\ WF_vars(Next)

\* ---- the specifications of the other functions ----

\* no selector runs
Idle ==
  /\ quotas = DefaultQuotas
  /\ special_quotas = DefaultSpecialQuotas
  /\ selected = <<>>
  /\ seen_urls = {}
  /\ counts = [o \in Range(Outcomes) \cup {""} |-> 0]
  /\ special_counts = [s \in Specials |-> 0]
  /\ pc = "idle"
  /\ ci = 1
  /\ year = years[2]
  /\ oi = 1
  /\ pos = 0
  /\ result = <<>>
  /\ delayed = TRUE
  /\ world = CorpusUrls
  /\ event = "start"
  /\ audit = {}
  /\ fetch_log = [u \in audit |-> <<>>]
  /\ yielded = {}
  /\ script = NoScript
  /\ calls = <<>>
  /\ first = NoRun

\* one call of execute, for each runtime and each behaviour of the callables
InitAgent ==
  /\ Idle
  /\ sd = NoSelect
  /\ \E m \in 0..MaxRetries :
     \E fb \in {"absent", "returns", "raises"} :
     \E v \in {"absent", "accepts", "rejects", "raises"} :
     \E cc \in {"absent", "returns", "raises"} :
       agent = Execute(m, fb, v, cc)

NextAgent ==
  \/ AgentValidate
  \/ \E c \in Calculated : AgentAttemptReturns(c)
  \/ AgentAttemptRaises
  \/ AgentFallbackReturns
  \/ AgentFallbackRaises
  \/ AgentFails

SpecAgent == InitAgent /\ [][NextAgent]_vars

\* one call of select_decisions, for each max_per_bucket
InitSelect ==
  /\ Idle
  /\ agent = NoExecute
  /\ \E m \in 0..MaxPerBucket : sd = Select(m)

NextSelect ==
  \/ SdYearDone
  \/ SdSearchOk
  \/ SdSearchFail
  \/ SdResultsDone
  \/ \E u \in world : SdSeen(u)
  \/ \E u \in world : SdFetchFail(u)
  \/ \E u \in world : SdMismatch(u)
  \/ \E u \in world : SdAccept(u)

SpecSelect == InitSelect /\ [][NextSelect]_vars

\* ---- helpers of the properties ----

IsPrefix(s, t) == Len(s) <= Len(t) /\ s = SubSeq(t, 1, Len(s))

\* number of decisions of a list with the feature flag set
WithFeature(s, special) ==
  Cardinality({i \in 1..Len(s) :
                 IF special = "private_nexus" THEN s[i].has_private_nexus
                 ELSE s[i].has_exam_inadequacy})

NetworkEvents == {"search_ok", "search_fail", "fetch_fail", "skip_full",
                  "skip_unmatched", "mismatch", "accept"}

\* ---- C1 ----
\* C1 (no-overshoot): in every state of a run, and in the returned list, the
\* number of accepted decisions of each outcome of quotas is at most its quota.
C1_NoOvershoot ==
  \A i \in 1..Len(quotas) :
    /\ CountIn(selected, quotas[i].outcome) <= quotas[i].quota
    /\ CountIn(result, quotas[i].outcome) <= quotas[i].quota

\* a candidate of a full outcome has just been fetched and turned down
C1_Witness ==
  /\ event = "skip_full"
  /\ \E i \in 1..Len(quotas) : CountIn(selected, quotas[i].outcome) = quotas[i].quota

\* ---- C2 ----
\* C2: whenever is_complete() is true, every outcome count (recomputed from
\* selected, and the counts field) equals its quota exactly and every feature
\* count is at least its minimum.
C2_CompleteExact ==
  is_complete =>
    /\ \A i \in 1..Len(quotas) :
         /\ CountIn(selected, quotas[i].outcome) = quotas[i].quota
         /\ counts[quotas[i].outcome] = quotas[i].quota
    /\ \A sp \in DOMAIN special_quotas :
         /\ special_counts[sp] >= special_quotas[sp]
         /\ WithFeature(selected, sp) >= special_quotas[sp]

\* the run has returned with all quotas met
C2_Witness == is_complete /\ pc = "done"

\* ---- C3 ----
\* the urls known to have been in the candidate stream: the audited urls that
\* a search result contained, and the urls of the accepted decisions
Stream == yielded \cup {selected[i].url : i \in 1..Len(selected)}

\* S contains distinct urls that meet every quota exactly and every minimum
Sufficient(S) ==
  \E T \in SUBSET S :
    /\ \A i \in 1..Len(quotas) :
         Cardinality({u \in T : OutcomeOf(parse_decision(fetch_decision_text(u)))
                                  = quotas[i].outcome}) = quotas[i].quota
    /\ Cardinality({u \in T : has_private_nexus(fetch_decision_text(u))})
         >= special_quotas["private_nexus"]
    /\ Cardinality({u \in T : has_exam_inadequacy(fetch_decision_text(u))})
         >= special_quotas["exam_inadequacy"]

\* C3 (sufficiency): a run whose fetches all succeed and whose candidate stream
\* contains distinct urls meeting every quota and every feature minimum
\* returns with is_complete() true.
C3_Sufficiency == (pc = "done" /\ Sufficient(Stream)) => is_complete

\* ---- C5 ----
\* C5: a url that was fetched and classified is not fetched again in the run.
C5_FetchedOnce ==
  \A u \in audit : Len(fetch_log[u]) >= 2 => fetch_log[u][1] # "ok"

\* ---- C4 ----
\* C4 (dedup): no two accepted decisions, and no two returned decisions, have
\* the same url.
C4_Dedup ==
  /\ \A i, j \in 1..Len(selected) : i # j => selected[i].url # selected[j].url
  /\ \A i, j \in 1..Len(result) : i # j => result[i].url # result[j].url

\* an accepted url came back in a search result and was passed over, while
\* its outcome was still short of its quota
C4_Witness ==
  /\ event = "seen"
  /\ \E i \in 1..Len(selected) : needs_more(selected[i].outcome)

\* ---- C6 ----
\* C6 (early termination): a step taken in a state where is_complete() holds
\* makes no search_bva and no fetch_decision_text call.
C6_EarlyTermination == [][is_complete => event' \notin NetworkEvents]_vars

\* all quotas were met inside a Phase 1 result list and the loop has left the
\* list, with a year of the range not yet searched
C6_Witness ==
  /\ is_complete
  /\ event = "results_done"
  /\ pc = "p1_year"
  /\ year >= years[1]

\* ---- C7 ----
\* C7 (partial result): no exception leaves select_100_decisions, and a run
\* that returns with quotas unmet returns exactly the decisions accepted so far.
C7_PartialResult ==
  /\ pc # "raised"
  /\ (pc = "done" /\ ~is_complete) => result = selected

\* the searches ran out and the run returned a partial list
C7_Witness ==
  /\ pc = "done"
  /\ ~is_complete
  /\ Len(result) > 0
  /\ \E i \in 1..Len(quotas) : CountIn(result, quotas[i].outcome) < quotas[i].quota

\* ---- C8 ----
\* C8: the returned list has at most ResultLimit decisions and is a prefix of
\* the accepted sequence, all of it unless it is longer than ResultLimit.
C8_ResultBounded ==
  pc = "done" =>
    /\ Len(result) <= ResultLimit
    /\ IsPrefix(result, selected)
    /\ Len(result) = Min(Len(selected), ResultLimit)

\* a run returned ResultLimit decisions
C8_Witness == pc = "done" /\ Len(selected) = ResultLimit /\ Len(result) = ResultLimit

C10_Monotone ==
  [][/\ IsPrefix(selected, selected')
     /\ \A o \in DOMAIN counts : counts[o] <= counts'[o]
     /\ \A sp \in DOMAIN special_counts : special_counts[sp] <= special_counts'[sp]]_vars

\* a second decision has just been appended
C10_Witness == event = "accept" /\ Len(selected) >= 2

\* ---- C11 ----
\* C11 (determinism): a second, fresh selector with the same quotas and years,
\* run against the same script of search results and fetch outcomes, makes
\* the calls of the first run in the same order and accepts the same
\* decisions in the same order; when it returns, its calls, its accepted
\* sequence and its result are those of the first run.
C11_Deterministic ==
  first.mode = "fresh" =>
    /\ IsPrefix(calls, first.calls)
    /\ IsPrefix(selected, first.selected)
    /\ pc = "done" =>
         /\ calls = first.calls
         /\ selected = first.selected
         /\ result = first.result

\* the second run has returned, having accepted decisions and having made
\* calls that led to no acceptance
C11_Witness ==
  /\ first.mode = "fresh"
  /\ pc = "done"
  /\ Len(selected) >= 2
  /\ Len(calls) > Len(selected) + 2

\* ---- C12 ----
\* the urls fetched, in the order of the calls
RECURSIVE FetchedUrls(_)
FetchedUrls(cs) ==
  IF cs = <<>> THEN <<>>
  ELSE (IF Head(cs).op = "fetch" THEN <<Head(cs).url>> ELSE <<>>) \o FetchedUrls(Tail(cs))

UrlsOf(s) == [i \in 1..Len(s) |-> s[i].url]

\* a run of a fresh selector with the scenario's quotas on the scenario's stream
ScenarioRun ==
  /\ script = ScenarioScript
  /\ quotas = ScenarioQuotas
  /\ special_quotas = ScenarioSpecialQuotas
  /\ first.mode # "same"

\* C12 (worked scenario): with quotas granted 2 and denied 2, one private
\* nexus opinion wanted, and the stream granted, granted, denied with the
\* opinion, granted, denied, the run accepts elements 1, 2, 3 and 5 in that
\* order, fetches the 4th and turns it down, ends with counts 2, 2 and 1 and
\* is_complete() true, and makes no call after the fetch of the 5th.
C12_Scenario ==
  (ScenarioRun /\ pc = "done") =>
    /\ UrlsOf(selected) = <<ScenarioStream[1], ScenarioStream[2],
                            ScenarioStream[3], ScenarioStream[5]>>
    /\ result = selected
    /\ FetchedUrls(calls) = ScenarioStream
    /\ calls[Len(calls)] = FetchCall(ScenarioStream[5])
    /\ get_outcome_count("granted") = 2 /\ counts["granted"] = 2
    /\ get_outcome_count("denied") = 2 /\ counts["denied"] = 2
    /\ special_counts["private_nexus"] = 1
    /\ is_complete

\* the scenario's first run has returned
C12_Witness == ScenarioRun /\ first.mode = "none" /\ pc = "done" /\ Len(calls) > 0

\* ---- C13 ----
\* the quotas sum to more than the number of decisions a run returns
Unsatisfiable == SumQuotas(quotas) > ResultLimit

\* C13 (configuration validation): with quotas that sum to more than the
\* result limit, the selector makes no search or fetch call, changes none of
\* its tracking fields and does not return a list.
C13_Validated ==
  Unsatisfiable =>
    /\ calls = <<>>
    /\ selected = <<>>
    /\ seen_urls = {}
    /\ pc # "done"

\* ---- C14 ----
\* C14: a step in which the fetch (or the parse) of a candidate fails leaves
\* selected, seen_urls, counts and special_counts unchanged, raises nothing,
\* and leaves the run in the same result list, one element further.
C14_FetchFailureLocal ==
  [][event' = "fetch_fail" =>
       /\ UNCHANGED tracking
       /\ pc' = pc
       /\ pc' \in {"p1_results", "p2_results"}
       /\ pos' = pos + 1
       /\ UNCHANGED <<ci, year, oi, result>>]_vars

\* a fetch has failed in a Phase 2 result list, after some decision was
\* accepted, with room for a further element in the list
C14_Witness ==
  /\ event = "fetch_fail"
  /\ pc = "p2_results"
  /\ Len(selected) >= 1
  /\ pos < MaxResults2

\* ---- C15 ----
\* C15: a step in which search_bva raises leaves selected, seen_urls, counts
\* and special_counts unchanged and raises nothing; in Phase 1 the run stays
\* in the year loop of the same condition at the next year, in Phase 2 in the
\* condition loop of the same outcome at the next condition.
C15_SearchFailureLocal ==
  [][event' = "search_fail" =>
       /\ UNCHANGED tracking
       /\ UNCHANGED result
       /\ pc' = pc
       /\ pc = "p1_year" => (year' = year - 1 /\ ci' = ci)
       /\ pc = "p2_condition" => (ci' = ci + 1 /\ oi' = oi)
       /\ pc \in {"p1_year", "p2_condition"}]_vars

\* a Phase 2 search has failed after some decision was accepted
C15_Witness ==
  /\ event = "search_fail"
  /\ pc = "p2_condition"
  /\ Len(selected) >= 1

\* ---- C16 ----
\* C16 (no persistence across calls): when select_100_decisions is entered
\* again on the same selector, selected and seen_urls are empty and every
\* count is zero.
C16_FreshStart ==
  event = "invoke" =>
    /\ selected = <<>>
    /\ seen_urls = {}
    /\ \A o \in DOMAIN counts : counts[o] = 0
    /\ \A sp \in DOMAIN special_counts : special_counts[sp] = 0

\* ---- C17 ----
\* the state of the run's state machine
Phase ==
  CASE event \in {"start", "invoke"} -> "INITIALIZED"
    [] pc \in {"p1_condition", "p1_year", "p1_results", "p2_check"} -> "EXPLORING"
    [] pc \in {"p2_outcome", "p2_condition", "p2_results"} -> "BACKFILLING"
    [] pc \in {"return", "done"} -> IF is_complete THEN "COMPLETE" ELSE "EXHAUSTED"
    [] OTHER -> "RAISED"

PhaseSteps ==
  { <<"INITIALIZED", "EXPLORING">>,
    <<"EXPLORING", "EXPLORING">>, <<"EXPLORING", "COMPLETE">>,
    <<"EXPLORING", "BACKFILLING">>,
    <<"BACKFILLING", "BACKFILLING">>, <<"BACKFILLING", "COMPLETE">>,
    <<"BACKFILLING", "EXHAUSTED">>,
    <<"COMPLETE", "COMPLETE">>, <<"EXHAUSTED", "EXHAUSTED">>,
    <<"COMPLETE", "INITIALIZED">>, <<"EXHAUSTED", "INITIALIZED">> }

\* the invocation has searched for condition c in year y
Searched(c, y) ==
  \E i \in 1..Len(calls) :
    calls[i].op = "search" /\ calls[i].query = <<c>> /\ calls[i].year = y

\* C17 (run state machine): a run starts INITIALIZED, goes to EXPLORING, from
\* there to COMPLETE or to BACKFILLING, and from BACKFILLING to COMPLETE or
\* EXHAUSTED (a new invocation starts INITIALIZED again); while the run is
\* BACKFILLING every condition has been searched in every year of the range,
\* is_complete() is false when BACKFILLING is entered, and every search made
\* while BACKFILLING is a compound (condition, outcome) query.
C17_StateMachine ==
  /\ [](Phase = "BACKFILLING" =>
          \A c \in Range(conditions) : \A y \in years[1]..years[2] : Searched(c, y))
  /\ [][/\ <<Phase, Phase'>> \in PhaseSteps
        /\ (Phase # "BACKFILLING" /\ Phase' = "BACKFILLING") => ~is_complete'
        /\ (Phase = "BACKFILLING" /\ Len(calls') > Len(calls)
              /\ calls'[Len(calls')].op = "search")
             => Len(calls'[Len(calls')].query) = 2]_vars

\* a run searched in Phase 2 and returned with every quota met
C17_Witness ==
  /\ pc = "done"
  /\ is_complete
  /\ \E i \in 1..Len(calls) : calls[i].op = "search" /\ Len(calls[i].query) = 2

\* ---- C18 ----
\* C18: execute (with max_retries >= 0) invokes fn at most max_retries + 1
\* times and not again once an invocation has returned, lets no exception of
\* fn, the validator or the fallback out, and returns with trace.retries one
\* less than the number of invocations, or 0 with no invocation, which
\* happens only when the validator rejected or raised.
C18_RetryDiscipline ==
  /\ agent.apc # "escaped"
  /\ agent.invocations <= agent.max_retries + 1
  /\ agent.fn_returned => (agent.apc = "returned" /\ agent.data = "fn")
  /\ agent.apc = "returned" =>
       IF agent.invocations > 0
       THEN agent.retries = agent.invocations - 1
       ELSE agent.retries = 0 /\ agent.validate_input \in {"rejects", "raises"}

\* execute returned the value of an invocation that followed two failed ones
C18_Witness ==
  /\ agent.apc = "returned"
  /\ agent.fn_returned
  /\ agent.invocations = MaxRetries + 1
  /\ agent.retries = MaxRetries

\* ---- C19 ----
\* every one of the max_retries + 1 invocations of fn has raised
AllRaised == agent.invocations = agent.max_retries + 1 /\ ~agent.fn_returned

\* C19: fallback_fn is invoked at most once and only after max_retries + 1
\* invocations of fn have all raised; when it returns, execute returns its
\* value with status FALLBACK and confidence 0.5; when every invocation raised
\* and the fallback raises or is absent, execute returns data None, status
\* FAILED and confidence 0.0.
C19_Fallback ==
  /\ agent.fallbacks <= 1
  /\ agent.fallbacks = 1 => AllRaised
  /\ agent.fallbacks = 1 => agent.fallback_fn # "absent"
  /\ (agent.apc = "returned" /\ AllRaised /\ agent.fallback_fn = "returns") =>
       /\ agent.fallbacks = 1
       /\ agent.data = "fallback"
       /\ agent.status = "fallback"
       /\ agent.confidence = FallbackConfidence
  /\ (agent.apc = "returned" /\ AllRaised /\ agent.fallback_fn \in {"raises", "absent"}) =>
       /\ agent.data = "none"
       /\ agent.status = "failed"
       /\ agent.confidence = NoConfidence

\* execute returned the fallback's value after retries
C19_Witness ==
  /\ agent.apc = "returned"
  /\ agent.data = "fallback"
  /\ agent.fallbacks = 1
  /\ agent.retries >= 1

\* ---- C20 ----
\* C20: in every state of a run of select_decisions (max_per_bucket >= 0), for
\* every condition and every outcome the selected items with that condition
\* and outcome number at most max_per_bucket, and every selected item's
\* outcome is the outcome of the query that found it.
C20_BucketBound ==
  /\ \A c \in Range(conditions) : \A o \in Range(Outcomes) \cup {""} :
       BucketCount(sd.selected, c, o) <= sd.max_per_bucket
  /\ \A i \in 1..Len(sd.selected) : sd.selected[i].outcome = sd.selected[i].query

\* the run has returned with a bucket holding max_per_bucket items, two or more
C20_Witness ==
  /\ sd.spc = "done"
  /\ sd.max_per_bucket >= 2
  /\ \E c \in Range(conditions) :
       BucketCount(sd.selected, c, "granted") = sd.max_per_bucket

\* ---- C21 ----
\* C21: a candidate whose fetch failed is never fetched again in the run: no
\* url whose fetch raises is the argument of two fetch calls of an invocation.
C21_NoRetry ==
  \A i \in 1..Len(calls) : \A j \in 1..Len(calls) :
    (i < j /\ calls[i].op = "fetch" /\ calls[j] = calls[i]) =>
      calls[i].url \notin script.bad_fetch

\* ---- C22 ----
\* the selector fetches u in this step
Fetches(u) == calls' = Append(calls, FetchCall(u))

\* C22: in Phase 1 a candidate not yet seen whose fetch succeeds is accepted
\* iff its outcome is a key of the quotas whose count is below its quota,
\* whatever its features; an acceptance appends the decision, adds its url to
\* seen_urls, adds 1 to the count of its outcome and 1 to the count of each
\* feature it has; a rejection leaves the tracking fields and the phase as
\* they are.
C22_Phase1Rule ==
  [][\A u \in ReplayUrls :
       (script.on /\ pc = "p1_results" /\ Fetches(u) /\ u \notin script.bad_fetch) =>
         LET o == OutcomeOf(parse_decision(fetch_decision_text(u)))
             wanted == \E i \in 1..Len(quotas) :
                         quotas[i].outcome = o /\ counts[o] < quotas[i].quota
         IN /\ u \notin seen_urls
            /\ IF wanted
               THEN /\ selected' = Append(selected,
                                     [url |-> u, outcome |-> o,
                                      has_private_nexus |-> u.serves.pn,
                                      has_exam_inadequacy |-> u.serves.ei])
                    /\ seen_urls' = seen_urls \cup {u}
                    /\ counts' = [counts EXCEPT ![o] = @ + 1]
                    /\ special_counts' =
                         [special_counts EXCEPT
                            !["private_nexus"] = @ + (IF u.serves.pn THEN 1 ELSE 0),
                            !["exam_inadequacy"] = @ + (IF u.serves.ei THEN 1 ELSE 0)]
               ELSE UNCHANGED tracking /\ pc' = pc]_vars

\* Phase 1 has rejected a candidate with no recognisable outcome and both
\* features while a feature was still wanted, and has accepted another
C22_Witness ==
  /\ script.on
  /\ pc = "p1_results"
  /\ event = "skip_unmatched"
  /\ Len(calls) > 0
  /\ calls[Len(calls)] = FetchCall(UrlOf(Text(None, TRUE, TRUE), 1))
  /\ needs_special("private_nexus")
  /\ Len(selected) >= 1

\* ---- C23 ----
\* C23: in Phase 2, while outcome c is backfilled, a candidate whose fetch
\* succeeds is accepted iff the classifier gives it outcome c exactly: an
\* accepted item carries outcome c, and a candidate of another outcome
\* leaves the tracking fields unchanged even when that outcome is itself
\* below its quota.
C23_Phase2Verified ==
  [][\A u \in ReplayUrls :
       (script.on /\ pc = "p2_results" /\ Fetches(u) /\ u \notin script.bad_fetch) =>
         LET actual == OutcomeOf(parse_decision(fetch_decision_text(u)))
             c == quotas[oi].outcome
         IN IF actual = c
            THEN /\ Len(selected') = Len(selected) + 1
                 /\ selected'[Len(selected')].url = u
                 /\ selected'[Len(selected')].outcome = c
            ELSE UNCHANGED tracking]_vars

\* Phase 2 has rejected a candidate of an outcome other than the one it is
\* backfilling while that other outcome was below its quota
C23_Witness ==
  /\ script.on
  /\ pc = "p2_results"
  /\ event = "mismatch"
  /\ Len(calls) > 0
  /\ calls[Len(calls)].op = "fetch"
  /\ LET actual == OutcomeOf(parse_decision(fetch_decision_text(calls[Len(calls)].url)))
     IN /\ actual # quotas[oi].outcome
        /\ \E i \in 1..Len(quotas) :
             quotas[i].outcome = actual /\ counts[actual] < quotas[i].quota

\* ---- C24 ----
\* the position of outcome o among the keys of self.quotas
QuotaIndex(o) == CHOOSE i \in 1..Len(quotas) : quotas[i].outcome = o

\* the Phase 2 searches of the call log, in the order made
RECURSIVE Compound(_)
Compound(cs) ==
  IF cs = <<>> THEN <<>>
  ELSE IF Head(cs).op = "search" /\ Len(Head(cs).query) = 2
       THEN <<Head(cs)>> \o Compound(Tail(cs))
       ELSE Compound(Tail(cs))

\* C24: every Phase 2 search is a query (condition, outcome) for the year
\* 2024 made while the count of that outcome is below its quota; the
\* searches for one outcome take the conditions in order from the first, one
\* after the other; the outcomes come in the order of the quotas, an outcome
\* is left only when its count has reached its quota or the conditions have
\* run out, and every outcome passed over has its count at its quota.
C24_Phase2Order ==
  [][\A k \in Range(conditions) : \A i \in 1..Len(quotas) : \A y \in {Phase2Year} \cup Range(years) :
       (script.on /\ calls' = Append(calls, SearchCall(<<k, quotas[i].outcome>>, y))) =>
         LET before == Compound(calls)
             from == IF before = <<>> THEN 0
                     ELSE QuotaIndex(before[Len(before)].query[2])
         IN /\ y = Phase2Year
            /\ counts[quotas[i].outcome] < quotas[i].quota
            /\ IF from = i
               THEN k = before[Len(before)].query[1] + 1
               ELSE /\ from < i
                    /\ k = conditions[1]
                    /\ \A j \in (from + 1)..(i - 1) :
                         counts[quotas[j].outcome] >= quotas[j].quota
                    /\ from > 0 =>
                         \/ counts[quotas[from].outcome] >= quotas[from].quota
                         \/ before[Len(before)].query[1] = conditions[Len(conditions)]]_vars

\* Phase 2 has searched for one outcome through the conditions, has passed
\* over an outcome that was full and is searching for a later one
C24_Witness ==
  /\ script.on
  /\ pc = "p2_results"
  /\ Len(Compound(calls)) >= 2
  /\ LET cs == Compound(calls)
     IN /\ calls[Len(calls)] = cs[Len(cs)]
        /\ QuotaIndex(cs[Len(cs)].query[2]) >= QuotaIndex(cs[Len(cs) - 1].query[2]) + 2
        /\ cs[Len(cs) - 1].query[1] = conditions[Len(conditions)]

\* ---- C25 ----
\* the Phase 1 searches of the call log, in the order made
RECURSIVE Bare(_)
Bare(cs) ==
  IF cs = <<>> THEN <<>>
  ELSE IF Head(cs).op = "search" /\ Len(Head(cs).query) = 1
       THEN <<Head(cs)>> \o Bare(Tail(cs))
       ELSE Bare(Tail(cs))

\* C25: every search Phase 1 makes is a query of the bare condition for a
\* year of the range; the first is for the first condition and the last year
\* of the range, a search after one for year y of a condition is for year
\* y - 1 of the same condition, or, when y is the first year of the range, for
\* the last year of the next condition: no pair (condition, year) is searched
\* twice.
C25_Phase1Schedule ==
  [][(/\ script.on
      /\ pc = "p1_year"
      /\ Len(calls') = Len(calls) + 1
      /\ calls'[Len(calls')].op = "search") =>
       LET c == calls'[Len(calls')]
           before == Bare(calls)
           prev == before[Len(before)]
       IN /\ Len(c.query) = 1
          /\ c.query[1] \in Range(conditions)
          /\ c.year \in years[1]..years[2]
          /\ Compound(calls) = <<>>
          /\ IF before = <<>>
             THEN c.query[1] = conditions[1] /\ c.year = years[2]
             ELSE \/ c.query[1] = prev.query[1] /\ c.year = prev.year - 1
                  \/ /\ c.query[1] = prev.query[1] + 1
                     /\ prev.year = years[1]
                     /\ c.year = years[2]
          /\ \A n \in 1..Len(before) :
               ~(before[n].query = c.query /\ before[n].year = c.year)]_vars

\* Phase 1 has searched the last condition for the first year of the range,
\* one search of the schedule having raised
C25_Witness ==
  /\ script.on
  /\ script.bad_search # {}
  /\ \A n \in script.bad_search : n < Len(Bare(calls))
  /\ pc \in {"p1_year", "p1_results"}
  /\ Len(calls) > 0
  /\ calls[Len(calls)] = SearchCall(<<conditions[Len(conditions)]>>, years[1])
  /\ Len(Bare(calls)) = Len(conditions) * (years[2] - years[1] + 1)

\* ---- C26 ----
\* C26: between any two consecutive network calls of the selector there is a
\* sleep: every search and every fetch is made with a sleep since the call
\* before it.
C26_Delayed == [][event' \in NetworkEvents => delayed]_vars

\* ---- C27 ----
\* C27: whenever the loop over the results of a search ends without the
\* early exit of its phase, every hit on every page of that search (up to
\* the max_results asked for) has been taken by the loop.
C27_AllPages ==
  [][(/\ script.on
      /\ event' = "results_done"
      /\ pc \in {"p1_results", "p2_results"}
      /\ ~(IF pc = "p1_results" THEN ResultsBreak ELSE P2Full)) =>
       LET M == IF pc = "p1_results" THEN MaxResults1 ELSE MaxResults2
       IN pos >= Min(M, Hits(Searches, M))]_vars

\* ---- C28 ----
\* C28: select_100_decisions eventually returns, whether the collaborators
\* return or raise, and at no time has it made more than
\* len(conditions) * len(years) Phase 1 searches or more than
\* len(quotas) * len(conditions) Phase 2 searches.
C28_Terminates ==
  /\ <>(pc = "done")
  /\ [](/\ Len(Bare(calls)) <= Len(conditions) * (years[2] - years[1] + 1)
        /\ Len(Compound(calls)) <= Len(quotas) * Len(conditions))

\* the run has returned after the most searches either phase can make, one
\* of them having raised
C28_Witness ==
  /\ pc = "done"
  /\ script.on
  /\ script.bad_search # {}
  /\ Len(Bare(calls)) = Len(conditions) * (years[2] - years[1] + 1)
  /\ Len(Compound(calls)) = Len(quotas) * Len(conditions)

\* ---- C29 ----
\* C29: in every state seen_urls is exactly the set of the urls of the
\* selected decisions: a url enters seen_urls when its candidate is accepted
\* and at no other time.
C29_SeenIsAccepted == seen_urls = {selected[i].url : i \in 1..Len(selected)}

\* Phase 1 has fetched and rejected a candidate whose outcome was full, two
\* decisions being accepted: the rejected url is not in seen_urls
C29_Witness ==
  /\ event = "skip_full"
  /\ pc = "p1_results"
  /\ Len(selected) >= 2
  /\ Cardinality(seen_urls) = Len(selected)

\* ---- C30 ----
\* every outcome count equals its quota
AllFull == \A i \in 1..Len(quotas) : counts[quotas[i].outcome] = quotas[i].quota
\* some feature count is below its minimum
FeatureShort == \E s \in Specials : special_counts[s] < special_quotas[s]

\* C30: once every outcome count equals its quota, selected never changes;
\* if a feature minimum is then unmet, it stays unmet: Phase 1 goes on through
\* every remaining condition and year, each year with a search, each
\* candidate taken being skipped as seen, fetched and rejected or failing to
\* fetch; Phase 2 makes no network call; and the run returns with
\* is_complete() false.
C30_FullButShort ==
  [][AllFull =>
       /\ selected' = selected
       /\ FeatureShort =>
            /\ UNCHANGED tracking
            /\ pc = "p1_condition" =>
                 pc' = IF ci <= Len(conditions) THEN "p1_year" ELSE "p2_check"
            /\ pc = "p1_year" =>
                 IF year >= years[1]
                 THEN event' \in {"search_ok", "search_fail"}
                 ELSE pc' = "p1_condition" /\ ci' = ci + 1
            /\ pc = "p1_results" =>
                 event' \in {"seen", "fetch_fail", "skip_full", "skip_unmatched",
                             "results_done"}
            /\ pc \in {"p2_check", "p2_outcome", "p2_condition", "p2_results"} =>
                 event' \notin NetworkEvents
            /\ pc' = "done" => ~is_complete']_vars

\* with every outcome at its quota and a feature minimum unmet, Phase 1 has
\* searched the last year of the last condition and fetched and rejected a
\* candidate of its result
C30_Witness ==
  /\ AllFull
  /\ FeatureShort
  /\ pc = "p1_results"
  /\ event = "skip_full"
  /\ ci = Len(conditions)
  /\ year = years[1]

====
